---------------------------- MODULE Spec2Model ----------------------------
(***************************************************************************)
(* DeepSpace: the NASA picture-of-the-day viewer.                          *)
(*                                                                         *)
(*   SpecServe  the getNasaImageOfDay edge function (record store, blob    *)
(*              store, provider), with concurrent invocations              *)
(*   SpecCache  the local image cache (getImage / preloadImage /           *)
(*              clearCache), called sequentially                           *)
(*   Spec       the NasaApodScreen: the walk-back load, the preloads, the  *)
(*              navigation gestures, on top of the client service and the  *)
(*              local image cache                                          *)
(*   SpecWalk   the same screen with walks of full length, the requests    *)
(*              of the preloads left unanswered                            *)
(*                                                                         *)
(* JavaScript strings are sequences: a date string is the sequence of its  *)
(* characters, a URL or storage path the sequence of its segments; null,   *)
(* undefined and "" are the empty sequence.                                *)
(***************************************************************************)
EXTENDS Integers, Sequences, FiniteSets, TLC

VARIABLES
    \* ---- edge function side (SpecServe)
    db,         \* nasa_images table: set of rows, date UNIQUE
    bucket,     \* storage bucket nasa-images: set of object names
    hs,         \* the invocations of serve in flight, by slot
    \* ---- local image cache (SpecCache and Spec)
    files,      \* files under CACHE_DIR: set of date strings that have <date>.jpg
    gi,         \* the getImage/preloadImage call of the sequential cache client
    dl,         \* successful downloads per date since the cache was last cleared
    \* ---- screen (Spec and SpecWalk)
    now,        \* the wall clock, in ticks
    currentDate, imageData, localImageUri, loading, error,   \* useState values
    pf,         \* the primary loadImageForDate flow
    pre,        \* the preloadImageForDate flows in flight, by slot
    nav         \* number of navigation gestures so far

serveVars == <<db, bucket, hs>>
cacheVars == <<files, gi, dl>>
screenVars == <<now, currentDate, imageData, localImageUri, loading, error, pf, pre, nav>>
vars == <<db, bucket, hs, files, gi, dl, now, currentDate, imageData,
          localImageUri, loading, error, pf, pre, nav>>

-----------------------------------------------------------------------------
(* Bounds of the model *)

\* clock ticks per calendar day (time of day is kept at this resolution)
TicksPerDay == 2
\* the clock advances at most this many ticks after the app has started
MaxClockTicks == 1
\* navigation gestures per run
MaxNav == 2
\* concurrent invocations of the edge function
MaxHandlers == 2
\* preloadImageForDate flows in flight at once
MaxPreloads == 2
\* successful downloads counted per date
MaxDownloads == 3
\* files the cache directory holds
MaxFiles == 1
\* no-data replies to one walk while the preloads are followed
MaxNoData == 2
\* days the screen stays open
MaxUptimeDays == 11

(* Program constants *)

MAX_DAYS_BACK == 50
MAX_RETRY_DAYS == 20

-----------------------------------------------------------------------------
(* Calendar dates and their YYYY-MM-DD strings *)

DigitChars == <<"0", "1", "2", "3", "4", "5", "6", "7", "8", "9">>

IsDigit(c) == \E i \in 1..10 : DigitChars[i] = c

DigitValue(c) == (CHOOSE i \in 1..10 : DigitChars[i] = c) - 1

\* String(n).padStart(2, '0') for 0 <= n <= 99
Pad2(n) == <<DigitChars[(n \div 10) + 1], DigitChars[(n % 10) + 1]>>

\* the four digits of a year 0..9999
Year4(y) ==
    <<DigitChars[(y \div 1000) + 1], DigitChars[((y \div 100) % 10) + 1],
      DigitChars[((y \div 10) % 10) + 1], DigitChars[(y % 10) + 1]>>

IsLeapYear(y) == (y % 4 = 0 /\ y % 100 # 0) \/ y % 400 = 0

DaysInMonth(y, m) ==
    IF m = 2 THEN (IF IsLeapYear(y) THEN 29 ELSE 28)
    ELSE IF m \in {4, 6, 9, 11} THEN 30 ELSE 31

\* day 0 of the model's calendar is 1 January of this year
EpochYear == 2025

RECURSIVE CivilFrom(_, _, _)
\* the calendar date of the n-th day (0-based) counted from 1 (month m) (year y)
CivilFrom(y, m, n) ==
    IF n < DaysInMonth(y, m)
    THEN [year |-> y, month |-> m, day |-> n + 1]
    ELSE IF m = 12 THEN CivilFrom(y + 1, 1, n - DaysInMonth(y, m))
         ELSE CivilFrom(y, m + 1, n - DaysInMonth(y, m))

\* a Date is a number of ticks since 00:00 of day 0, in local time
DayOf(date) == date \div TicksPerDay

\* formatDate: local year, month and day, zero padded, joined by "-"
formatDate(date) ==
    LET c == CivilFrom(EpochYear, 1, DayOf(date))
    IN  Year4(c.year) \o <<"-">> \o Pad2(c.month) \o <<"-">> \o Pad2(c.day)

\* addDays: setDate(getDate() + days) keeps the local time of day
addDays(date, days) == date + days * TicksPerDay

\* /^\d{4}-\d{2}-\d{2}$/.test(s)
dateRegexTest(s) ==
    /\ Len(s) = 10
    /\ \A i \in {1, 2, 3, 4, 6, 7, 9, 10} : IsDigit(s[i])
    /\ s[5] = "-"
    /\ s[8] = "-"

\* whether a string of the YYYY-MM-DD layout names a day of the calendar (what
\* the DATE column of nasa_images accepts)
IsCalendarDate(s) ==
    /\ dateRegexTest(s)
    /\ LET y == 1000 * DigitValue(s[1]) + 100 * DigitValue(s[2])
                + 10 * DigitValue(s[3]) + DigitValue(s[4])
           m == 10 * DigitValue(s[6]) + DigitValue(s[7])
           d == 10 * DigitValue(s[9]) + DigitValue(s[10])
       IN  /\ m \in 1..12
           /\ d >= 1
           /\ d <= DaysInMonth(y, m)


-----------------------------------------------------------------------------
(* Values shared by the edge function and the client *)

\* a row of nasa_images / an ImageDetails; absent optional fields are <<>>
NullRow ==
    [date |-> <<>>, title |-> <<>>, url |-> <<>>, media_type |-> "",
     hdurl |-> <<>>, storage_path |-> <<>>, thumbnail_storage_path |-> <<>>]

\* the JSON body of a response of the edge function; present = FALSE is null
NullBody ==
    [present |-> FALSE, data |-> NullRow, cached |-> FALSE, error |-> "",
     errorCode |-> "", date |-> <<>>]

\* { data, cached } with status 200
OkResponse(row, isCached) ==
    [status |-> 200,
     body |-> [NullBody EXCEPT !.present = TRUE, !.data = row, !.cached = isCached]]

\* the catch block of serve: { error: error.message } with status 400
ErrorResponse(message) ==
    [status |-> 400, body |-> [NullBody EXCEPT !.present = TRUE, !.error = message]]

\* the reply to a missing or malformed date
InvalidDateResponse ==
    ErrorResponse("Invalid date format. Please provide date in YYYY-MM-DD format")

\* the reply to a CORS preflight: the text 'ok'
PreflightResponse ==
    [status |-> 200, body |-> [NullBody EXCEPT !.present = TRUE]]

NoResponse == [status |-> 0, body |-> NullBody]

-----------------------------------------------------------------------------
(* The provider (NASA APOD API) as the edge function sees it *)

\* the title the provider gives the picture of a day
ProviderTitle == <<"M", "3", "1", ":", " ", "A", "n", "d">>

\* title.replace(/[^a-z0-9]/gi, '_').toLowerCase(), character by character
SanitizeChar(c) ==
    IF IsDigit(c) THEN c
    ELSE IF c \in {"a", "n", "d", "m"} THEN c
    ELSE IF c = "A" THEN "a"
    ELSE IF c = "M" THEN "m"
    ELSE "_"

SanitizeTitle(t) == [i \in 1..Len(t) |-> SanitizeChar(t[i])]

\* the media the provider can publish for a day
ProviderShapes ==
    { [media_type |-> "image", hd |-> TRUE],
      [media_type |-> "image", hd |-> FALSE],
      [media_type |-> "video", hd |-> FALSE] }

\* the provider's URLs of the day's medium
StdUrl(date) == <<"https://apod.nasa.gov/image/">> \o date \o <<".jpg">>
HdUrl(date) == <<"https://apod.nasa.gov/image/">> \o date \o <<"_hd.jpg">>

\* a NasaApodResponse for date
ProviderData(date, shape) ==
    [date |-> date, title |-> ProviderTitle, media_type |-> shape.media_type,
     url |-> StdUrl(date),
     hdurl |-> IF shape.hd THEN HdUrl(date) ELSE <<>>]

NullProviderData ==
    [date |-> <<>>, title |-> <<>>, media_type |-> "", url |-> <<>>, hdurl |-> <<>>]

\* what fetch(nasaApiUrl) can yield: a 200 with the day's data, the provider's
\* 404 "No data available for date", another HTTP error, or a rejected fetch
ProviderAnswers(date) ==
    { [kind |-> "ok", status |-> 200, data |-> ProviderData(date, sh)] :
          sh \in ProviderShapes }
    \cup { [kind |-> "nodata", status |-> 404, data |-> NullProviderData],
           [kind |-> "http", status |-> 500, data |-> NullProviderData],
           [kind |-> "throw", status |-> 0, data |-> NullProviderData] }

\* `NASA API error: ${nasaResponse.status} - ${errorText}`
NasaApiErrorMessage(ans) ==
    IF ans.kind = "nodata"
    THEN "NASA API error: 404 - No data available for date"
    ELSE "NASA API error: 500 - Internal Server Error"

-----------------------------------------------------------------------------
(* The client service (services/supabase.ts) *)

NoError == [kind |-> "", context |-> NullBody]

\* supabase.functions.invoke: a response that is not 2xx becomes
\* { data: null, error: FunctionsHttpError(context = the response) }
FunctionsInvoke(resp) ==
    IF resp.status >= 200 /\ resp.status < 300
    THEN [data |-> resp.body, error |-> NoError]
    ELSE [data |-> NullBody,
          error |-> [kind |-> "FunctionsHttpError", context |-> resp.body]]

\* invoke when the relay or the network fails
RelayFailure == [data |-> NullBody, error |-> [kind |-> "FunctionsRelayError", context |-> NullBody]]
FetchFailure == [data |-> NullBody, error |-> [kind |-> "FunctionsFetchError", context |-> NullBody]]

Returned(value) ==
    [kind |-> "return", value |-> value, name |-> "", message |-> "", date |-> <<>>]

\* throw new NasaNoDataError(message, date)
NasaNoDataError(message, date) ==
    [kind |-> "throw", value |-> NullBody, name |-> "NasaNoDataError",
     message |-> message, date |-> date]

\* getNasaImageOfDay: only an HTTP error whose body has errorCode NASA_NO_DATA
\* is thrown; after any other error the function returns data, which is null
\* a variant that takes every HTTP error of the function for the no-data error
getNasaImageOfDayAnyHttpError(inv) ==
    IF inv.error.kind = "FunctionsHttpError"
    THEN NasaNoDataError(inv.error.context.error, inv.error.context.date)
    ELSE Returned(inv.data)

getNasaImageOfDay(inv) ==
    IF inv.error.kind = "FunctionsHttpError"
       /\ inv.error.context.errorCode = "NASA_NO_DATA"
    THEN NasaNoDataError(inv.error.context.error, inv.error.context.date)
    ELSE Returned(inv.data)

-----------------------------------------------------------------------------
(* The edge function getNasaImageOfDay (serve) *)

storageBucket == "nasa-images"

\* `${date}-${sanitized title}.jpg`
FileName(date, title) == date \o <<"-">> \o SanitizeTitle(title) \o <<".jpg">>

\* `hd-${date}-${sanitized title}.jpg`
HdFileName(date, title) == <<"hd-">> \o FileName(date, title)

\* `${storageBucket}/${fileName}`
StoragePath(fileName) == <<storageBucket, "/">> \o fileName

HandlerIds == 1..MaxHandlers

D1 == <<"2", "0", "2", "5", "-", "1", "0", "-", "0", "5">>
D2 == <<"2", "0", "2", "5", "-", "1", "0", "-", "0", "6">>
BadMonthDay == <<"2", "0", "2", "4", "-", "1", "3", "-", "4", "0">>
BadLayout == <<"1", "0", "-", "0", "5", "-", "2", "0", "2", "4">>

\* the date strings a request can carry (<<>>: none)
RequestDates == {D1, D2, BadMonthDay, BadLayout, <<>>}

\* requests: a CORS preflight; the date as URL query parameter (the curl call
\* of the function's own comment); the date in the JSON body (functions.invoke)
Requests ==
    { [method |-> "OPTIONS", query |-> <<>>, body |-> <<>>] }
    \cup { [method |-> "GET", query |-> d, body |-> <<>>] : d \in RequestDates }
    \cup { [method |-> "POST", query |-> <<>>, body |-> D1] }

NoCalls == [dbReads |-> 0, dbWrites |-> 0, nasa |-> 0, uploads |-> 0]

IdleHandler ==
    [pc |-> "idle",
     req |-> [method |-> "", query |-> <<>>, body |-> <<>>],
     date |-> <<>>,                 \* const date
     nasaData |-> NullProviderData, \* const nasaData
     storagePath |-> <<>>, hdStoragePath |-> <<>>,
     resp |-> NoResponse,           \* the Response returned
     \* history of this invocation
     calls |-> NoCalls,             \* calls made to the stores and the provider
     seen |-> NullRow,              \* the row the lookup returned, if any
     stored |-> FALSE,              \* a row for date existed when the lookup ran
     answer |-> "",                 \* kind of the provider's answer, if asked
     conflict |-> FALSE]            \* the insert hit the UNIQUE constraint on date

Finish(h, response) == [h EXCEPT !.pc = "done", !.resp = response]

\* the row of nasa_images for date, or NullRow
RowOf(table, date) ==
    IF \E r \in table : r.date = date
    THEN CHOOSE r \in table : r.date = date
    ELSE NullRow

\* serveStart with the layout test left out of the validation
serveStartNoLayoutCheck(req) ==
    LET h == [IdleHandler EXCEPT !.req = req, !.date = req.query]
    IN  IF req.method = "OPTIONS" THEN Finish(h, PreflightResponse)
        ELSE IF req.query = <<>>
        THEN Finish(h, ErrorResponse(
                 "Invalid date format. Please provide date in YYYY-MM-DD format"))
        ELSE [h EXCEPT !.pc = "select"]

\* lines 43-70: preflight, then the date of the URL query validated by layout
serveStart(req) ==
    LET h == [IdleHandler EXCEPT !.req = req, !.date = req.query]
    IN  IF req.method = "OPTIONS" THEN Finish(h, PreflightResponse)
        ELSE IF req.query = <<>> \/ ~dateRegexTest(req.query)
        THEN Finish(h, ErrorResponse(
                 "Invalid date format. Please provide date in YYYY-MM-DD format"))
        ELSE [h EXCEPT !.pc = "select"]

\* the answers of .from('nasa_images').select('*').eq('date', date).single():
\* the row, PGRST116 (no row), or another error; a string that is no calendar
\* day is refused by the DATE column
SelectOutcomes(table, date) ==
    IF ~IsCalendarDate(date) THEN {"error"}
    ELSE IF RowOf(table, date) # NullRow THEN {"found", "error"}
    ELSE {"PGRST116", "error"}

\* serveSelect without the early return for an existing row
serveSelectNoCache(h, table, outcome) ==
    LET h1 == [h EXCEPT !.calls.dbReads = @ + 1,
                        !.stored = (RowOf(table, h.date) # NullRow)]
    IN  IF outcome = "error" THEN Finish(h1, ErrorResponse("record store error"))
        ELSE [h1 EXCEPT !.pc = "nasa"]

\* lines 72-93: the lookup and the cached reply
serveSelect(h, table, outcome) ==
    LET h1 == [h EXCEPT !.calls.dbReads = @ + 1,
                        !.stored = (RowOf(table, h.date) # NullRow)]
    IN  IF outcome = "error" THEN Finish(h1, ErrorResponse("record store error"))
        ELSE IF outcome = "found"
        THEN Finish([h1 EXCEPT !.seen = RowOf(table, h.date)],
                    OkResponse(RowOf(table, h.date), TRUE))
        ELSE [h1 EXCEPT !.pc = "nasa"]

\* lines 95-110: the provider fetch
serveNasa(h, ans) ==
    LET h1 == [h EXCEPT !.calls.nasa = @ + 1, !.answer = ans.kind]
    IN  IF ans.kind = "throw" THEN Finish(h1, ErrorResponse("fetch failed"))
        ELSE IF ans.kind # "ok" THEN Finish(h1, ErrorResponse(NasaApiErrorMessage(ans)))
        ELSE [h1 EXCEPT !.nasaData = ans.data,
                        !.pc = IF ans.data.media_type = "image" THEN "img" ELSE "insert"]

\* lines 112-114: download of the standard image, outside any try block
serveImg(h, outcome) ==
    IF outcome = "throw" THEN Finish(h, ErrorResponse("fetch failed"))
    ELSE [h EXCEPT !.pc = "upload"]

\* upload(fileName, ..., { upsert: false }): an existing object is a conflict
UploadOutcomes(objects, name) ==
    IF name \in objects THEN {"error"} ELSE {"ok", "error"}

\* a variant that throws the upload error
serveUploadThrows(h, outcome) ==
    IF outcome # "ok"
    THEN Finish([h EXCEPT !.calls.uploads = @ + 1], ErrorResponse("upload failed"))
    ELSE [h EXCEPT !.calls.uploads = @ + 1,
                   !.storagePath = StoragePath(FileName(h.date, h.nasaData.title)),
                   !.pc = IF h.nasaData.hdurl # <<>> THEN "hdimg" ELSE "insert"]

\* a variant that records the path whatever the upload returned
serveUploadKeepsPath(h, outcome) ==
    [h EXCEPT !.calls.uploads = @ + 1,
              !.storagePath = StoragePath(FileName(h.date, h.nasaData.title)),
              !.pc = IF h.nasaData.hdurl # <<>> THEN "hdimg" ELSE "insert"]

\* lines 116-134: upload of the standard image
serveUpload(h, outcome) ==
    [h EXCEPT !.calls.uploads = @ + 1,
              !.storagePath = IF outcome = "ok"
                              THEN StoragePath(FileName(h.date, h.nasaData.title))
                              ELSE <<>>,
              !.pc = IF h.nasaData.hdurl # <<>> THEN "hdimg" ELSE "insert"]

\* lines 135-138 and 153-156: download of the HD image, inside try/catch
serveHdImg(h, outcome) ==
    [h EXCEPT !.pc = IF outcome = "throw" THEN "insert" ELSE "hdupload"]

\* lines 140-152: upload of the HD image
serveHdUpload(h, outcome) ==
    [h EXCEPT !.calls.uploads = @ + 1,
              !.hdStoragePath = IF outcome = "ok"
                                THEN StoragePath(HdFileName(h.date, h.nasaData.title))
                                ELSE <<>>,
              !.pc = "insert"]

\* the row that insert(...) writes
NewRow(h) ==
    [date |-> h.nasaData.date, title |-> h.nasaData.title, url |-> h.nasaData.url,
     media_type |-> h.nasaData.media_type, hdurl |-> h.nasaData.hdurl,
     storage_path |-> h.storagePath, thumbnail_storage_path |-> h.hdStoragePath]

\* a table without the UNIQUE constraint on date
InsertOutcomesNoUnique(table, row) == {"ok", "error"}

\* insert into a table with date UNIQUE: a row of the same date is a conflict
InsertOutcomes(table, row) ==
    IF RowOf(table, row.date) # NullRow THEN {"conflict"} ELSE {"ok", "error"}

\* a variant that reports the inserted row as served from the store
serveInsertCachedFlag(h, outcome) ==
    LET h1 == [h EXCEPT !.calls.dbWrites = @ + 1,
                        !.conflict = (outcome = "conflict")]
    IN  IF outcome = "ok" THEN Finish(h1, OkResponse(NewRow(h), TRUE))
        ELSE IF outcome = "conflict"
        THEN Finish(h1, ErrorResponse(
                 "duplicate key value violates unique constraint"))
        ELSE Finish(h1, ErrorResponse("record store error"))

\* a variant that throws after the row was written
serveInsertThrowsAfterWrite(h, outcome) ==
    LET h1 == [h EXCEPT !.calls.dbWrites = @ + 1,
                        !.conflict = (outcome = "conflict")]
    IN  IF outcome = "conflict"
        THEN Finish(h1, ErrorResponse(
                 "duplicate key value violates unique constraint"))
        ELSE Finish(h1, ErrorResponse("record store error"))

\* lines 160-187: the insert; any insertError is thrown
serveInsert(h, outcome) ==
    LET h1 == [h EXCEPT !.calls.dbWrites = @ + 1,
                        !.conflict = (outcome = "conflict")]
    IN  IF outcome = "ok" THEN Finish(h1, OkResponse(NewRow(h), FALSE))
        ELSE IF outcome = "conflict"
        THEN Finish(h1, ErrorResponse(
                 "duplicate key value violates unique constraint"))
        ELSE Finish(h1, ErrorResponse("record store error"))

(* actions *)

Receive(i) ==
    /\ hs[i].pc = "idle"
    /\ \E req \in Requests : hs' = [hs EXCEPT ![i] = serveStart(req)]
    /\ UNCHANGED <<db, bucket, cacheVars, screenVars>>

Select(i) ==
    /\ hs[i].pc = "select"
    /\ \E o \in SelectOutcomes(db, hs[i].date) :
           hs' = [hs EXCEPT ![i] = serveSelect(hs[i], db, o)]
    /\ UNCHANGED <<db, bucket, cacheVars, screenVars>>

Nasa(i) ==
    /\ hs[i].pc = "nasa"
    /\ \E ans \in ProviderAnswers(hs[i].date) :
           hs' = [hs EXCEPT ![i] = serveNasa(hs[i], ans)]
    /\ UNCHANGED <<db, bucket, cacheVars, screenVars>>

Img(i) ==
    /\ hs[i].pc = "img"
    /\ \E o \in {"ok", "throw"} : hs' = [hs EXCEPT ![i] = serveImg(hs[i], o)]
    /\ UNCHANGED <<db, bucket, cacheVars, screenVars>>

Upload(i) ==
    /\ hs[i].pc = "upload"
    /\ LET name == FileName(hs[i].date, hs[i].nasaData.title)
       IN  \E o \in UploadOutcomes(bucket, name) :
               /\ hs' = [hs EXCEPT ![i] = serveUpload(hs[i], o)]
               /\ bucket' = IF o = "ok" THEN bucket \cup {name} ELSE bucket
    /\ UNCHANGED <<db, cacheVars, screenVars>>

HdImg(i) ==
    /\ hs[i].pc = "hdimg"
    /\ \E o \in {"ok", "throw"} : hs' = [hs EXCEPT ![i] = serveHdImg(hs[i], o)]
    /\ UNCHANGED <<db, bucket, cacheVars, screenVars>>

HdUpload(i) ==
    /\ hs[i].pc = "hdupload"
    /\ LET name == HdFileName(hs[i].date, hs[i].nasaData.title)
       IN  \E o \in UploadOutcomes(bucket, name) :
               /\ hs' = [hs EXCEPT ![i] = serveHdUpload(hs[i], o)]
               /\ bucket' = IF o = "ok" THEN bucket \cup {name} ELSE bucket
    /\ UNCHANGED <<db, cacheVars, screenVars>>

Insert(i) ==
    /\ hs[i].pc = "insert"
    /\ \E o \in InsertOutcomes(db, NewRow(hs[i])) :
           /\ hs' = [hs EXCEPT ![i] = serveInsert(hs[i], o)]
           /\ db' = IF o = "ok" THEN db \cup {NewRow(hs[i])} ELSE db
    /\ UNCHANGED <<bucket, cacheVars, screenVars>>

NextServe ==
    \E i \in HandlerIds :
        \/ Receive(i)
        \/ Select(i)
        \/ Nasa(i)
        \/ Img(i)
        \/ Upload(i)
        \/ HdImg(i)
        \/ HdUpload(i)
        \/ Insert(i)

-----------------------------------------------------------------------------
(* The local image cache (services/imageCache.ts) *)

\* const CACHE_DIR = `${cacheDirectory}nasa-images/`
CACHE_DIR == <<"file:///cache/", "nasa-images/">>

\* getCacheFilePath: `${CACHE_DIR}${date}.jpg`
getCacheFilePath(date) == CACHE_DIR \o date \o <<".jpg">>

\* getNasaImagePublicUrl: storage.from("nasa-images").getPublicUrl(storagePath)
getNasaImagePublicUrl(storagePath) ==
    <<"https://project.supabase.co", "/storage/v1/object/public/", "nasa-images", "/">>
    \o storagePath

\* how downloadAsync can end: resolved with status 200, resolved with another
\* status, or rejected; it saves the response body at the target path whenever
\* it resolves, whatever the status
DownloadOutcomes == {"200", "404", "reject"}

FileWritten(outcome) == outcome \in {"200", "404"}

\* downloadAndCache succeeds only for status 200
DownloadSucceeded(outcome) == outcome = "200"

NoResult == [kind |-> "", uri |-> <<>>, message |-> ""]

IdleCall ==
    [pc |-> "idle", op |-> "", nasaUrl |-> <<>>, storagePath |-> <<>>, date |-> <<>>,
     result |-> NoResult,
     \* history of this call
     hit |-> FALSE,      \* getCachedImage found the file
     tried |-> <<>>]     \* the downloadAsync calls made: [url, outcome], in order

\* a call of getImage(nasaUrl, storagePath, date), up to its first await
\* (op = "preloadImage": the same call made inside preloadImage's try block)
StartCall(op, nasaUrl, storagePath, date) ==
    [IdleCall EXCEPT !.pc = "check", !.op = op, !.nasaUrl = nasaUrl,
                     !.storagePath = storagePath, !.date = date]

ReturnUri(c, uri) ==
    [c EXCEPT !.pc = "done", !.result = [kind |-> "return", uri |-> uri, message |-> ""]]

\* an error leaving getImage: preloadImage catches and logs it
ThrowFrom(c, message) ==
    IF c.op = "preloadImage"
    THEN [c EXCEPT !.pc = "done", !.result = [kind |-> "return", uri |-> <<>>, message |-> ""]]
    ELSE [c EXCEPT !.pc = "done", !.result = [kind |-> "throw", uri |-> <<>>, message |-> message]]

\* lines 151-162: the Supabase fallback, or no source left
AfterNasa(c) ==
    IF c.storagePath # <<>> THEN [c EXCEPT !.pc = "storage"]
    ELSE ThrowFrom(c, "No valid image URL available")

\* getImageCheck without the cache lookup
getImageCheckAlwaysMiss(c, fs) ==
    IF c.nasaUrl # <<>> THEN [c EXCEPT !.pc = "nasa"]
    ELSE AfterNasa(c)

\* lines 136-149: getCachedImage, then the first source to try
getImageCheck(c, fs) ==
    IF c.date \in fs THEN ReturnUri([c EXCEPT !.hit = TRUE], getCacheFilePath(c.date))
    ELSE IF c.nasaUrl # <<>> THEN [c EXCEPT !.pc = "nasa"]
    ELSE AfterNasa(c)

\* getImageNasa without the return after a successful download
getImageNasaFallsThrough(c, outcome) ==
    AfterNasa([c EXCEPT !.tried = Append(@, [url |-> c.nasaUrl, outcome |-> outcome])])

\* lines 143-149: downloadAndCache(nasaUrl, date)
getImageNasa(c, outcome) ==
    LET c1 == [c EXCEPT !.tried = Append(@, [url |-> c.nasaUrl, outcome |-> outcome])]
    IN  IF DownloadSucceeded(outcome) THEN ReturnUri(c1, getCacheFilePath(c.date))
        ELSE AfterNasa(c1)

\* lines 152-160: downloadAndCache(getNasaImagePublicUrl(storagePath), date)
getImageStorage(c, outcome) ==
    LET c1 == [c EXCEPT !.tried = Append(@, [url |-> getNasaImagePublicUrl(c.storagePath),
                                             outcome |-> outcome])]
    IN  IF DownloadSucceeded(outcome) THEN ReturnUri(c1, getCacheFilePath(c.date))
        ELSE ThrowFrom(c1, "Download failed")

\* the files after a downloadAsync to the cache file of date
FilesAfter(fs, date, outcome) == IF FileWritten(outcome) THEN fs \cup {date} ELSE fs

\* the arguments the screen passes: getImage(data.hdurl || data.url,
\* data.storage_path, dateStr)
NasaUrlOf(data) == IF data.hdurl # <<>> THEN data.hdurl ELSE data.url

\* the image records a caller can hold for a date
ImageRecords(date) ==
    { [NullRow EXCEPT
          !.date = date, !.title = ProviderTitle, !.media_type = "image",
          !.url = StdUrl(date),
          !.hdurl = IF h THEN HdUrl(date) ELSE <<>>,
          !.storage_path = IF st THEN StoragePath(FileName(date, ProviderTitle))
                           ELSE <<>>] :
      h \in BOOLEAN, st \in BOOLEAN }

CacheDates == {D1, D2}

(* actions of the sequential cache client *)

CallGetImage ==
    /\ gi.pc \in {"idle", "done"}
    /\ \E d \in CacheDates, op \in {"getImage", "preloadImage"} :
           \E data \in ImageRecords(d) :
               gi' = StartCall(op, NasaUrlOf(data), data.storage_path, data.date)
    /\ UNCHANGED <<files, dl, serveVars, screenVars>>

CacheCheck ==
    /\ gi.pc = "check"
    /\ gi' = getImageCheck(gi, files)
    /\ UNCHANGED <<files, dl, serveVars, screenVars>>

CacheDownloadNasa ==
    /\ gi.pc = "nasa"
    /\ dl[gi.date] < MaxDownloads
    /\ \E o \in DownloadOutcomes :
           /\ gi' = getImageNasa(gi, o)
           /\ files' = FilesAfter(files, gi.date, o)
           /\ dl' = IF DownloadSucceeded(o) THEN [dl EXCEPT ![gi.date] = @ + 1] ELSE dl
    /\ UNCHANGED <<serveVars, screenVars>>

CacheDownloadStorage ==
    /\ gi.pc = "storage"
    /\ dl[gi.date] < MaxDownloads
    /\ \E o \in DownloadOutcomes :
           /\ gi' = getImageStorage(gi, o)
           /\ files' = FilesAfter(files, gi.date, o)
           /\ dl' = IF DownloadSucceeded(o) THEN [dl EXCEPT ![gi.date] = @ + 1] ELSE dl
    /\ UNCHANGED <<serveVars, screenVars>>

\* clearCache: deleteAsync(CACHE_DIR); the download counts start again and the
\* client drops the finished call
ClearCache ==
    /\ gi.pc \in {"idle", "done"}
    /\ files' = {}
    /\ dl' = [d \in CacheDates |-> 0]
    /\ gi' = IdleCall
    /\ UNCHANGED <<serveVars, screenVars>>

NextCache ==
    \/ CallGetImage
    \/ CacheCheck
    \/ CacheDownloadNasa
    \/ CacheDownloadStorage
    \/ ClearCache

-----------------------------------------------------------------------------
(* The screen (screens/NasaApodScreen.tsx) *)

\* the replies of the resolution endpoint that the client is written for:
\* { data, cached }, the no-data error { error, errorCode: "NASA_NO_DATA", date }
\* with status 404, and { error } with status 400
VideoRecord(date) ==
    [NullRow EXCEPT !.date = date, !.title = ProviderTitle, !.media_type = "video",
                    !.url = StdUrl(date)]

\* the records the screen is run with: an image with an HD link and a stored
\* copy, an image with neither, and a video
ScreenRecords(date) ==
    { r \in ImageRecords(date) : (r.hdurl = <<>>) = (r.storage_path = <<>>) }
    \cup {VideoRecord(date)}

NoDataResponse(date) ==
    [status |-> 404,
     body |-> [NullBody EXCEPT !.present = TRUE,
                               !.error = "No data available for this date",
                               !.errorCode = "NASA_NO_DATA", !.date = date]]

\* what supabase.functions.invoke can resolve to for a request for dateStr
InvokeResults(dateStr) ==
    { FunctionsInvoke(OkResponse(row, c)) :
          row \in ScreenRecords(dateStr), c \in BOOLEAN }
    \cup { FunctionsInvoke(NoDataResponse(dateStr)),
           FunctionsInvoke(ErrorResponse("NASA API error: 500 - Internal Server Error")),
           FunctionsInvoke(InvalidDateResponse),
           RelayFailure, FetchFailure }

\* the kind of an invoke result: the day's record, the no-data error, or any
\* other failure
ReplyKind(inv) ==
    IF inv.error.kind = "" THEN "ok"
    ELSE IF inv.error.kind = "FunctionsHttpError"
            /\ inv.error.context.errorCode = "NASA_NO_DATA" THEN "nodata"
    ELSE "other"

\* a variant that stops the walk one retry early
canRetryOneLess(retryCount, date, today) ==
    /\ retryCount + 1 < MAX_RETRY_DAYS
    /\ addDays(date, -1) >= addDays(today, -MAX_DAYS_BACK)

\* a variant without the retry limit
canRetryNoLimit(retryCount, date, today) ==
    addDays(date, -1) >= addDays(today, -MAX_DAYS_BACK)

\* lines 92-96: may the walk go on to the previous day
canRetry(retryCount, date, today) ==
    /\ retryCount < MAX_RETRY_DAYS
    /\ addDays(date, -1) >= addDays(today, -MAX_DAYS_BACK)

MaxRetriesMessage == "No NASA images available for the last 20 days"
DateRangeMessage == "No NASA images available in the allowed date range"

\* a variant that always blames the retry limit
exhaustedMessageAlwaysMax(retryCount) == MaxRetriesMessage

\* lines 105-107
exhaustedMessage(retryCount) ==
    IF retryCount >= MAX_RETRY_DAYS THEN MaxRetriesMessage ELSE DateRangeMessage

\* response.data when getNasaImageOfDay returned null
TypeErrorMessage == "Cannot read property 'data' of null"

\* lines 127-128 and 133: which neighbours preloadAdjacentImages loads
preloadYesterday(date, today) ==
    addDays(date, -1) >= addDays(today, -MAX_DAYS_BACK)

preloadTomorrow(date, today) == addDays(date, 1) <= today

preloadDates(date, today) ==
    (IF preloadYesterday(date, today) THEN <<addDays(date, -1)>> ELSE <<>>)
    \o (IF preloadTomorrow(date, today) THEN <<addDays(date, 1)>> ELSE <<>>)

\* lines 169-172 and 180-183: the range checks of the navigation
canGoNext(cursor, today) == addDays(cursor, 1) <= today

canGoPrevious(cursor, today) ==
    addDays(cursor, -1) >= addDays(today, -MAX_DAYS_BACK)

\* a variant that renders the GestureDetector while a load is going on
gesturesRenderedWhileLoading ==
    /\ error = ""
    /\ imageData # NullRow

\* a variant that renders the GestureDetector over an error
gesturesRenderedOnError ==
    /\ ~loading
    /\ imageData # NullRow

\* lines 225-252: the GestureDetector is rendered only past the three early
\* returns
gesturesRendered ==
    /\ ~loading
    /\ error = ""
    /\ imageData # NullRow
    /\ localImageUri # <<>>

\* the instant the app starts: 6 October 2025 (day 278 of 2025), at 00:00
StartDay == 278

\* new Date() when the screen is constructed
StartInstant == StartDay * TicksPerDay

PreloadIds == 1..MaxPreloads

\* media: the media type of the record the preload's resolve call returned
IdleFlow == [pc |-> "idle", date |-> 0, dateStr |-> <<>>, call |-> IdleCall, media |-> ""]

\* preloadImageForDate(date) up to its first await (the invoke is issued)
StartPreload(date) ==
    [pc |-> "resolve", date |-> date, dateStr |-> formatDate(date), call |-> IdleCall,
     media |-> ""]

RECURSIVE Pick(_, _, _)
\* the elements of dates at the positions in keep, from position i on, in order
Pick(dates, keep, i) ==
    IF i > Len(dates) THEN <<>>
    ELSE (IF i \in keep THEN <<dates[i]>> ELSE <<>>) \o Pick(dates, keep, i + 1)

\* the preloads of one preloadAdjacentImages call whose requests are answered:
\* up to MaxPreloads of them, the others stay pending for ever
AnsweredPreloads(dates) ==
    { Pick(dates, keep, 1) :
          keep \in { k \in SUBSET (1..Len(dates)) :
                         \/ Cardinality(k) = MaxPreloads
                         \/ Cardinality(k) < MaxPreloads /\ k = 1..Len(dates) } }

\* the preload flows after starting one for each date of the sequence dates;
\* a preload of an earlier call that is still pending stays so for ever
SpawnPreloads(dates) ==
    [i \in PreloadIds |-> IF i <= Len(dates) THEN StartPreload(dates[i]) ELSE IdleFlow]

\* loadImageForDate(date, retryCount) up to its first await; walk holds the
\* history of the walk this call belongs to
StartLoad(date, retryCount, walk) ==
    [pc |-> "resolve", date |-> date, retryCount |-> retryCount,
     dateStr |-> formatDate(date), call |-> IdleCall,
     \* history of the walk
     requested |-> walk.requested,   \* the date of the call with retryCount = 0
     calls |-> walk.calls + 1,       \* resolve calls issued
     nodata |-> walk.nodata,         \* no-data replies received
     reply |-> "",                   \* kind of the reply to the last resolve call
     data |-> NullRow,               \* the record of that reply
     endedAt |-> 0]                  \* the clock when the walk ended

NewWalk(date) == [requested |-> date, calls |-> 0, nodata |-> 0]

\* a variant that downloads whatever the media type
needsDownloadAlways(data) == TRUE

\* lines 70 and 146: only images are downloaded and cached
needsDownload(data) == data.media_type = "image"

(* actions *)

Tick ==
    /\ now < StartInstant + MaxClockTicks
    /\ now' = now + 1
    /\ UNCHANGED <<currentDate, imageData, localImageUri, loading, error, pf, pre, nav,
                   serveVars, cacheVars>>

\* lines 82-83 and 115-117: the load succeeded with the asset at uri
LoadSucceeded(flow, uri) ==
    /\ localImageUri' = uri
    /\ \E dates \in AnsweredPreloads(preloadDates(flow.date, now)) :
           pre' = SpawnPreloads(dates)
    /\ loading' = FALSE
    /\ pf' = [flow EXCEPT !.pc = "done", !.endedAt = now]
    /\ UNCHANGED <<currentDate, error>>

\* a variant whose catch block walks back after any error
LoadFailedWalksBack(flow, message) ==
    IF canRetry(flow.retryCount, flow.date, now)
    THEN /\ currentDate' = addDays(flow.date, -1)
         /\ loading' = TRUE
         /\ error' = ""
         /\ localImageUri' = <<>>
         /\ pf' = StartLoad(addDays(flow.date, -1), flow.retryCount + 1, flow)
         /\ UNCHANGED pre
    ELSE /\ error' = exhaustedMessage(flow.retryCount)
         /\ loading' = FALSE
         /\ pf' = [flow EXCEPT !.pc = "done", !.endedAt = now]
         /\ UNCHANGED <<currentDate, localImageUri, pre>>

\* lines 84-117 for an error that is no NasaNoDataError
LoadFailed(flow, message) ==
    /\ error' = message
    /\ loading' = FALSE
    /\ pf' = [flow EXCEPT !.pc = "done", !.endedAt = now]
    /\ UNCHANGED <<currentDate, localImageUri, pre>>

\* a variant whose walk moves two days back at a time
LoadNoDataSkipsDay(flow) ==
    IF canRetry(flow.retryCount, flow.date, now)
    THEN /\ currentDate' = addDays(flow.date, -2)
         /\ loading' = TRUE
         /\ error' = ""
         /\ localImageUri' = <<>>
         /\ pf' = StartLoad(addDays(flow.date, -2), flow.retryCount + 1, flow)
         /\ UNCHANGED pre
    ELSE /\ error' = exhaustedMessage(flow.retryCount)
         /\ loading' = FALSE
         /\ pf' = [flow EXCEPT !.pc = "done", !.endedAt = now]
         /\ UNCHANGED <<currentDate, localImageUri, pre>>

\* a variant whose walk leaves the cursor where it is
LoadNoDataKeepsCursor(flow) ==
    IF canRetry(flow.retryCount, flow.date, now)
    THEN /\ loading' = TRUE
         /\ error' = ""
         /\ localImageUri' = <<>>
         /\ pf' = StartLoad(addDays(flow.date, -1), flow.retryCount + 1, flow)
         /\ UNCHANGED <<currentDate, pre>>
    ELSE /\ error' = exhaustedMessage(flow.retryCount)
         /\ loading' = FALSE
         /\ pf' = [flow EXCEPT !.pc = "done", !.endedAt = now]
         /\ UNCHANGED <<currentDate, localImageUri, pre>>

\* lines 88-109: a NasaNoDataError
LoadNoData(flow) ==
    IF canRetry(flow.retryCount, flow.date, now)
    THEN /\ currentDate' = addDays(flow.date, -1)
         /\ loading' = TRUE
         /\ error' = ""
         /\ localImageUri' = <<>>
         /\ pf' = StartLoad(addDays(flow.date, -1), flow.retryCount + 1, flow)
         /\ UNCHANGED pre
    ELSE /\ error' = exhaustedMessage(flow.retryCount)
         /\ loading' = FALSE
         /\ pf' = [flow EXCEPT !.pc = "done", !.endedAt = now]
         /\ UNCHANGED <<currentDate, localImageUri, pre>>

\* the reply to the primary flow's getNasaImageOfDay arrives: lines 64-80; the
\* endpoint answers up to limit requests of one walk with the no-data error,
\* and its records are of the media types in media
PrimaryResolve(limit, media) ==
    /\ pf.pc = "resolve"
    /\ \E inv \in { r \in InvokeResults(pf.dateStr) :
                       /\ ReplyKind(r) = "nodata" => pf.nodata < limit
                       /\ ReplyKind(r) = "ok" => r.data.data.media_type \in media } :
           LET out == getNasaImageOfDay(inv)
               flow == [pf EXCEPT !.reply = ReplyKind(inv),
                                  !.nodata = IF ReplyKind(inv) = "nodata" THEN @ + 1 ELSE @,
                                  !.data = inv.data.data]
           IN  IF out.kind = "throw"
               THEN LoadNoData(flow) /\ UNCHANGED <<imageData, files>>
               ELSE IF ~out.value.present
               THEN LoadFailed(flow, TypeErrorMessage) /\ UNCHANGED <<imageData, files>>
               ELSE /\ imageData' = out.value.data
                    /\ UNCHANGED files
                    /\ IF needsDownload(out.value.data)
                       THEN /\ pf' = [flow EXCEPT
                                         !.pc = "asset",
                                         !.call = StartCall("getImage",
                                                            NasaUrlOf(out.value.data),
                                                            out.value.data.storage_path,
                                                            flow.dateStr)]
                            /\ UNCHANGED <<currentDate, localImageUri, loading, error, pre>>
                       ELSE LoadSucceeded(flow, out.value.data.url)
    /\ UNCHANGED <<now, nav, serveVars, gi, dl>>

\* one step of a getImage call: the call and the files after it
getImageStep(c, fs, outcome) ==
    IF c.pc = "check" THEN [call |-> getImageCheck(c, fs), files |-> fs]
    ELSE IF c.pc = "nasa"
    THEN [call |-> getImageNasa(c, outcome), files |-> FilesAfter(fs, c.date, outcome)]
    ELSE [call |-> getImageStorage(c, outcome), files |-> FilesAfter(fs, c.date, outcome)]

\* the outcomes the step of a call can have: the cache directory holds up to
\* MaxFiles files
StepOutcomes(c, fs) ==
    IF c.pc = "check" THEN {"none"}
    ELSE { o \in DownloadOutcomes : Cardinality(FilesAfter(fs, c.date, o)) <= MaxFiles }

\* a step of the primary flow's getImage; when it ends, lines 76 and 82-117
PrimaryAsset ==
    /\ pf.pc = "asset"
    /\ \E o \in StepOutcomes(pf.call, files) :
           LET st == getImageStep(pf.call, files, o)
               flow == [pf EXCEPT !.call = st.call]
           IN  /\ files' = st.files
               /\ IF st.call.pc # "done"
                  THEN /\ pf' = flow
                       /\ UNCHANGED <<currentDate, localImageUri, loading, error, pre>>
                  ELSE IF st.call.result.kind = "return"
                  THEN LoadSucceeded(flow, st.call.result.uri)
                  ELSE LoadFailed(flow, st.call.result.message)
    /\ UNCHANGED <<now, imageData, nav, serveVars, gi, dl>>

\* a variant in which a preload that gets the no-data error goes on to the
\* day before
PreloadResolveWalksBack(i) ==
    /\ pre[i].pc = "resolve"
    /\ \E inv \in InvokeResults(pre[i].dateStr) :
           LET out == getNasaImageOfDay(inv)
           IN  pre' = [pre EXCEPT ![i] =
                   IF out.kind = "throw" THEN StartPreload(addDays(pre[i].date, -1))
                   ELSE IF out.value.present /\ needsDownload(out.value.data)
                   THEN [@ EXCEPT !.pc = "asset",
                                  !.media = out.value.data.media_type,
                                  !.call = StartCall("preloadImage",
                                                     NasaUrlOf(out.value.data),
                                                     out.value.data.storage_path,
                                                     pre[i].dateStr)]
                   ELSE IdleFlow]
    /\ UNCHANGED <<now, currentDate, imageData, localImageUri, loading, error, pf, nav,
                   serveVars, cacheVars>>

\* the reply to a preload's getNasaImageOfDay arrives: lines 143-159
PreloadResolve(i) ==
    /\ pre[i].pc = "resolve"
    /\ \E inv \in InvokeResults(pre[i].dateStr) :
           LET out == getNasaImageOfDay(inv)
           IN  pre' = [pre EXCEPT ![i] =
                   IF out.kind = "return" /\ out.value.present
                      /\ needsDownload(out.value.data)
                   THEN [@ EXCEPT !.pc = "asset",
                                  !.media = out.value.data.media_type,
                                  !.call = StartCall("preloadImage",
                                                     NasaUrlOf(out.value.data),
                                                     out.value.data.storage_path,
                                                     pre[i].dateStr)]
                   ELSE IdleFlow]
    /\ UNCHANGED <<now, currentDate, imageData, localImageUri, loading, error, pf, nav,
                   serveVars, cacheVars>>

\* a variant in which a preload that got its file shows it
PreloadAssetShowsImage(i) ==
    /\ pre[i].pc = "asset"
    /\ \E o \in StepOutcomes(pre[i].call, files) :
           LET st == getImageStep(pre[i].call, files, o)
           IN  /\ files' = st.files
               /\ pre' = [pre EXCEPT ![i] =
                       IF st.call.pc = "done" THEN IdleFlow ELSE [@ EXCEPT !.call = st.call]]
               /\ localImageUri' = IF st.call.pc = "done" /\ st.call.result.kind = "return"
                                   THEN st.call.result.uri
                                   ELSE localImageUri
    /\ UNCHANGED <<now, currentDate, imageData, loading, error, pf, nav,
                   serveVars, gi, dl>>

\* a step of a preload's preloadImage
PreloadAsset(i) ==
    /\ pre[i].pc = "asset"
    /\ \E o \in StepOutcomes(pre[i].call, files) :
           LET st == getImageStep(pre[i].call, files, o)
           IN  /\ files' = st.files
               /\ pre' = [pre EXCEPT ![i] =
                       IF st.call.pc = "done" THEN IdleFlow ELSE [@ EXCEPT !.call = st.call]]
    /\ UNCHANGED <<now, currentDate, imageData, localImageUri, loading, error, pf, nav,
                   serveVars, gi, dl>>

\* lines 168-176
goToNextDay ==
    /\ gesturesRendered
    /\ nav < MaxNav
    /\ nav' = nav + 1
    /\ IF canGoNext(currentDate, now)
       THEN /\ currentDate' = addDays(currentDate, 1)
            /\ loading' = TRUE
            /\ error' = ""
            /\ localImageUri' = <<>>
            /\ pf' = StartLoad(addDays(currentDate, 1), 0, NewWalk(addDays(currentDate, 1)))
       ELSE UNCHANGED <<currentDate, loading, error, localImageUri, pf>>
    /\ UNCHANGED <<now, imageData, pre, serveVars, cacheVars>>

\* lines 179-187
goToPreviousDay ==
    /\ gesturesRendered
    /\ nav < MaxNav
    /\ nav' = nav + 1
    /\ IF canGoPrevious(currentDate, now)
       THEN /\ currentDate' = addDays(currentDate, -1)
            /\ loading' = TRUE
            /\ error' = ""
            /\ localImageUri' = <<>>
            /\ pf' = StartLoad(addDays(currentDate, -1), 0, NewWalk(addDays(currentDate, -1)))
       ELSE UNCHANGED <<currentDate, loading, error, localImageUri, pf>>
    /\ UNCHANGED <<now, imageData, pre, serveVars, cacheVars>>

\* the system deletes the files of the cache directory (cacheDirectory is
\* purged when the device runs low on storage)
SystemPurge ==
    /\ files # {}
    /\ files' = {}
    /\ UNCHANGED <<now, currentDate, imageData, localImageUri, loading, error, pf, pre,
                   nav, serveVars, gi, dl>>

\* the media types of the endpoint's records (apod media_type)
MediaTypes == {"image", "video"}

\* the screen with its preloads, the walks cut after MaxNoData steps
Next ==
    \/ Tick
    \/ SystemPurge
    \/ PrimaryResolve(MaxNoData, MediaTypes)
    \/ PrimaryAsset
    \/ \E i \in PreloadIds : PreloadResolve(i)
    \/ \E i \in PreloadIds : PreloadAsset(i)
    \/ goToNextDay
    \/ goToPreviousDay

\* the screen with walks of any length, the requests of the preloads never
\* answered
NextWalk ==
    \/ Tick
    \/ SystemPurge
    \/ PrimaryResolve(MAX_RETRY_DAYS + 1, MediaTypes)
    \/ PrimaryAsset
    \/ goToNextDay
    \/ goToPreviousDay

\* the app stays open over midnight: a day later new Date() is a day later
DayPasses ==
    /\ now < StartInstant + MaxUptimeDays * TicksPerDay
    /\ now' = now + TicksPerDay
    /\ UNCHANGED <<currentDate, imageData, localImageUri, loading, error, pf, pre, nav,
                   serveVars, cacheVars>>

\* the screen left open for hours and days, the endpoint answering with video
\* records only (no download takes place), the requests of the preloads never
\* answered
NextUptime ==
    \/ Tick
    \/ DayPasses
    \/ PrimaryResolve(MAX_RETRY_DAYS + 1, {"video"})
    \/ goToNextDay
    \/ goToPreviousDay

-----------------------------------------------------------------------------
(* Initial state: a fresh deployment and a freshly started app *)

Init ==
    /\ db = {}
    /\ bucket = {}
    /\ hs = [i \in HandlerIds |-> IdleHandler]
    /\ files = {}
    /\ gi = IdleCall
    /\ dl = [d \in CacheDates |-> 0]
    /\ now = StartInstant
    /\ currentDate = StartInstant
    /\ imageData = NullRow
    /\ localImageUri = <<>>
    /\ loading = TRUE
    /\ error = ""
    /\ pf = StartLoad(StartInstant, 0, NewWalk(StartInstant))
    /\ pre = [i \in PreloadIds |-> IdleFlow]
    /\ nav = 0

SpecServe == Init /\ [][NextServe]_vars

SpecCache == Init /\ [][NextCache]_vars

Spec == Init /\ [][Next]_vars

SpecWalk == Init /\ [][NextWalk]_vars

SpecUptime == Init /\ [][NextUptime]_vars

\* SpecWalk when every resolve call and every download eventually returns
SpecWalkFair ==
    /\ Init /\ [][NextWalk]_vars
    /\ WF_vars(PrimaryResolve(MAX_RETRY_DAYS + 1, MediaTypes))
    /\ WF_vars(PrimaryAsset)

-----------------------------------------------------------------------------
(* Claims about the walk back over days without data, checked under SpecWalk *)

\* the walk of the primary flow ended because the last probe had no data
Exhausted == pf.pc = "done" /\ pf.reply = "nodata"

\* the primary flow got the record of its probe date and, for an image, the
\* local file
Resolved ==
    /\ pf.pc = "done"
    /\ pf.reply = "ok"
    /\ pf.data.media_type = "image" => pf.call.result.kind = "return"

\* C1: when the probes for D, D-1, ..., D-k have no data, k+1 is within
\* MAX_RETRY_DAYS and D-(k+1) is not older than the oldest allowed date, the
\* walk goes on to D-(k+1) with retry count k+1; when that day resolves (and its
\* asset is obtained) the load ends in success showing the record of D-(k+1),
\* with the cursor on that date.  The walk never stops on a no-data reply while
\* both bounds allow another step.
C1_WalkBackSucceeds ==
    /\ pf.retryCount <= MAX_RETRY_DAYS
    /\ pf.date = addDays(pf.requested, -pf.retryCount)
    /\ pf.dateStr = formatDate(pf.date)
    /\ pf.calls = pf.retryCount + 1
    /\ pf.pc \in {"resolve", "asset"} => pf.nodata = pf.retryCount
    /\ Exhausted =>
           \/ pf.retryCount >= MAX_RETRY_DAYS
           \/ pf.date - TicksPerDay < pf.endedAt - MAX_DAYS_BACK * TicksPerDay
    /\ Resolved =>
           /\ pf.retryCount = pf.nodata
           /\ currentDate = addDays(pf.requested, -pf.nodata)
           /\ imageData = pf.data
           /\ imageData.date = formatDate(addDays(pf.requested, -pf.nodata))
           /\ localImageUri # <<>>
           /\ ~loading
           /\ error = ""

\* a load that succeeded on the last day the retry limit allows
C1_Witness ==
    /\ Resolved
    /\ pf.nodata = MAX_RETRY_DAYS
    /\ currentDate = addDays(StartInstant, -MAX_RETRY_DAYS)
    /\ imageData.date = formatDate(currentDate)
    /\ ~loading

\* C2: a walk that runs out of days ends in the error state; the message names
\* the retry limit exactly when the retry count has reached MAX_RETRY_DAYS, and
\* the date range exactly when the retry count is below the limit and the next
\* probe date would fall before today - MAX_DAYS_BACK.  No other load shows
\* either message.
C2_ExhaustionReason ==
    /\ Exhausted =>
           /\ ~loading
           /\ localImageUri = <<>>
           /\ error \in {MaxRetriesMessage, DateRangeMessage}
           /\ error = MaxRetriesMessage <=> pf.retryCount >= MAX_RETRY_DAYS
           /\ error = DateRangeMessage <=>
                  /\ pf.retryCount < MAX_RETRY_DAYS
                  /\ pf.date - TicksPerDay < pf.endedAt - MAX_DAYS_BACK * TicksPerDay
    /\ error \in {MaxRetriesMessage, DateRangeMessage} => Exhausted

\* a walk stopped by the oldest allowed date with retries left
C2_Witness ==
    /\ Exhausted
    /\ error = DateRangeMessage
    /\ pf.retryCount < MAX_RETRY_DAYS
    /\ pf.retryCount > 0

\* a walk stopped by the retry limit
C2_MaxAttemptsReached ==
    /\ Exhausted
    /\ error = MaxRetriesMessage
    /\ pf.retryCount = MAX_RETRY_DAYS

\* C3: when the resolve call for the probe date fails with anything but the
\* no-data error, the walk ends at once in the error state: no resolve call for
\* another date follows and the cursor stays on the probe date.
C3_OnlyNoDataDrivesWalk ==
    pf.reply = "other" =>
        /\ pf.pc = "done"
        /\ ~loading
        /\ error # ""
        /\ error \notin {MaxRetriesMessage, DateRangeMessage}
        /\ pf.calls = pf.nodata + 1
        /\ pf.retryCount = pf.nodata
        /\ pf.date = addDays(pf.requested, -pf.nodata)
        /\ currentDate = pf.date

\* a walk that took one step back and then met another failure
C3_Witness ==
    /\ pf.reply = "other"
    /\ pf.pc = "done"
    /\ pf.nodata = 1
    /\ currentDate = addDays(StartInstant, -1)
    /\ error # ""

-----------------------------------------------------------------------------
(* Claims about the screen with its preloads, under Spec *)

\* a flow that has issued its resolve call or is downloading, and has not ended
InFlight(flow) == flow.pc \in {"resolve", "asset"}

\* C11 (as claimed): no two resolution flows (the primary flow, the neighbour
\* preloads) are in flight for the same date at the same time.
C11_SameDateExclusion ==
    /\ \A i \in PreloadIds :
           InFlight(pf) /\ InFlight(pre[i]) => pf.dateStr # pre[i].dateStr
    /\ \A i, j \in PreloadIds :
           i # j /\ InFlight(pre[i]) /\ InFlight(pre[j]) => pre[i].dateStr # pre[j].dateStr

\* C12 rests on a case that does not occur: while a primary flow is in flight
\* the screen is loading, no gesture is rendered, and the cursor is the flow's
\* own probe date.
C12_CursorIsProbeDateInFlight ==
    InFlight(pf) => loading /\ ~gesturesRendered /\ currentDate = pf.date

\* C16: a record that is no image is never downloaded: the primary flow that
\* received it makes no getImage call, ends with the record's remote URL as
\* the asset URI and leaves the cache files alone, and a preload makes a
\* preloadImage call only for an image record.
C16_VideoNeverDownloaded ==
    /\ [](/\ pf.reply = "ok" /\ pf.data.media_type # "image" =>
                 /\ pf.pc = "done"
                 /\ pf.call = IdleCall
                 /\ error = ""
                 /\ localImageUri = pf.data.url
          /\ \A i \in PreloadIds :
                 pre[i].pc = "asset" => pre[i].media = "image")
    /\ [][pf' # pf /\ pf'.reply = "ok" /\ pf'.data.media_type # "image" =>
              files' = files]_vars

\* the primary flow ended with a video record
C16_Witness ==
    /\ pf.pc = "done"
    /\ pf.reply = "ok"
    /\ pf.data.media_type = "video"
    /\ imageData = pf.data
    /\ localImageUri = pf.data.url
    /\ ~loading

-----------------------------------------------------------------------------
(* Claims about the order of the probes, under SpecWalk *)

\* a step in which loadImageForDate issues a resolve call
IssuesResolve == pf' # pf /\ pf'.pc = "resolve"

\* C15: the probes of a walk are strictly sequential: the k-th resolve call
\* of a walk is for the requested date minus k - 1 days, it is issued only in
\* the step in which the pending probe for the day after returns no-data, and
\* no other step issues a probe while one is pending.
C15_SequentialProbes ==
    /\ [](/\ pf.date = addDays(pf.requested, -(pf.calls - 1))
          /\ pf.retryCount = pf.calls - 1
          /\ pf.pc = "resolve" => pf.nodata = pf.calls - 1)
    /\ [][IssuesResolve =>
              \/ /\ pf.pc = "done"
                 /\ pf'.calls = 1
                 /\ pf'.date = pf'.requested
              \/ /\ pf.pc = "resolve"
                 /\ pf'.requested = pf.requested
                 /\ pf'.calls = pf.calls + 1
                 /\ pf'.nodata = pf.nodata + 1
                 /\ pf'.date = addDays(pf.date, -1)]_vars

\* the third probe of a walk is pending after two no-data replies
C15_Witness ==
    /\ pf.pc = "resolve"
    /\ pf.calls = 3
    /\ pf.nodata = 2
    /\ pf.date = addDays(pf.requested, -2)

\* the getImage call of the primary flow threw: no source gave the file
AssetUnavailable(flow) ==
    flow.call.pc = "done" /\ flow.call.result.kind = "throw"

\* C21: when the record of the probe date was resolved and every download
\* source failed, the load ends in the error state with getImage's error and
\* none of the two no-data messages; the step that ends the download phase
\* ends the load, issues no resolve call and leaves the cursor where it is.
C21_AssetUnavailableEndsLoad ==
    /\ [](AssetUnavailable(pf) =>
              /\ pf.pc = "done"
              /\ pf.reply = "ok"
              /\ ~loading
              /\ error = pf.call.result.message
              /\ error \notin {"", MaxRetriesMessage, DateRangeMessage}
              /\ currentDate = pf.date)
    /\ [][pf.pc = "asset" /\ pf'.pc # "asset" =>
              /\ pf'.pc = "done"
              /\ pf'.calls = pf.calls
              /\ pf'.date = pf.date
              /\ currentDate' = currentDate]_vars

\* a walk that went back a day found the record and could not get the file
C21_Witness ==
    /\ AssetUnavailable(pf)
    /\ pf.pc = "done"
    /\ pf.retryCount > 0
    /\ pf.call.tried # <<>>
    /\ error = pf.call.result.message

\* the primary flow ended with an error message set
EndedInError == pf.pc = "done" /\ error # ""

\* C33: the cursor is the probe date of the primary flow in every state, and
\* already in the step that issues a resolve call; a walk that ends in an
\* error after at least one retry leaves the cursor on the last probed date,
\* retryCount days before the requested date.
C33_CursorTracksProbe ==
    /\ [](currentDate = pf.date)
    /\ [][IssuesResolve => currentDate' = pf'.date]_vars
    /\ [](EndedInError /\ pf.retryCount >= 1 =>
              /\ currentDate = addDays(pf.requested, -pf.retryCount)
              /\ currentDate # pf.requested)

\* a walk that ended on the retry limit, the cursor MAX_RETRY_DAYS days before
\* the requested date
C33_Witness ==
    /\ EndedInError
    /\ pf.retryCount = MAX_RETRY_DAYS
    /\ pf.requested = StartInstant
    /\ currentDate = pf.date
    /\ currentDate = addDays(StartInstant, -MAX_RETRY_DAYS)

-----------------------------------------------------------------------------
(* Claims about termination, under SpecWalkFair *)

\* the load has ended: loading is off and the screen shows either the media
\* or the error
Ended ==
    /\ pf.pc = "done"
    /\ ~loading
    /\ (error # "") # (localImageUri # <<>> /\ imageData # NullRow)

\* C14: when every resolve call and every download eventually returns, every
\* load eventually ends with loading off, showing the media or the error, and
\* a walk never takes more than MAX_RETRY_DAYS cursor decrements, that is
\* MAX_RETRY_DAYS + 1 resolve calls.
C14_WalkTerminates ==
    /\ [](/\ pf.calls <= MAX_RETRY_DAYS + 1
          /\ pf.requested - pf.date <= MAX_RETRY_DAYS * TicksPerDay
          /\ pf.pc = "done" => Ended)
    /\ (pf.pc # "done" ~> Ended)

\* a walk that took all MAX_RETRY_DAYS + 1 resolve calls has ended
C14_Witness ==
    Ended /\ pf.calls = MAX_RETRY_DAYS + 1 /\ pf.requested - pf.date = MAX_RETRY_DAYS * TicksPerDay

-----------------------------------------------------------------------------
(* Claims about the screen left open for days, under SpecUptime *)

\* C13 (as claimed): no resolve call of a walk is issued for a probe date
\* older than today - MAX_DAYS_BACK or with a retry count above
\* MAX_RETRY_DAYS.
C13_RetryStateBounds ==
    [][IssuesResolve =>
           /\ pf'.date >= addDays(now', -MAX_DAYS_BACK)
           /\ pf'.retryCount <= MAX_RETRY_DAYS]_vars

\* two instants of the same calendar day
SameDay(a, b) == a \div TicksPerDay = b \div TicksPerDay

\* C27 (as claimed): every gesture and every walk-back step that moves the
\* cursor moves it to a date between today - MAX_DAYS_BACK and today, so that
\* the cursor lies in that range after any sequence of them; a gesture made
\* with the cursor on today does not move it forward, one made with the cursor
\* on the oldest allowed day does not move it back, and a gesture that leaves
\* the cursor where it is starts no load.
C27_CursorRange ==
    /\ [][currentDate' # currentDate =>
              /\ currentDate' >= addDays(now', -MAX_DAYS_BACK)
              /\ currentDate' <= now']_vars
    /\ [][nav' # nav =>
              /\ SameDay(currentDate, now) => currentDate' <= currentDate
              /\ SameDay(currentDate, addDays(now, -MAX_DAYS_BACK)) =>
                     currentDate' >= currentDate
              /\ currentDate' = currentDate => pf' = pf]_vars

\* a step in which the primary flow ends in success (preloadAdjacentImages is
\* called)
LoadSucceeds == pf.pc # "done" /\ pf'.pc = "done" /\ error' = ""

\* the dates of the preloads in flight
PreloadsInFlight(flows) ==
    { flows[i].date : i \in { j \in PreloadIds : flows[j].pc = "resolve" } }

\* C22 (as claimed): after a successful primary resolution at date D a preload
\* is started for D - 1 exactly when D - 1 is not older than the oldest
\* allowed date and for D + 1 exactly when D + 1 is not later than today, and
\* no preload is started for a date after today or before the oldest allowed
\* date.
C22_PreloadRange ==
    [][LoadSucceeds =>
           /\ addDays(pf'.date, -1) \in PreloadsInFlight(pre')
                  <=> addDays(pf'.date, -1) >= addDays(now', -MAX_DAYS_BACK)
           /\ addDays(pf'.date, 1) \in PreloadsInFlight(pre')
                  <=> addDays(pf'.date, 1) <= now'
           /\ \A d \in PreloadsInFlight(pre') :
                  /\ d \in {addDays(pf'.date, -1), addDays(pf'.date, 1)}
                  /\ d <= now'
                  /\ d >= addDays(now', -MAX_DAYS_BACK)]_vars

\* the calendar day MAX_DAYS_BACK days before today, as a day number
OldestDay == DayOf(now) - MAX_DAYS_BACK

\* C32 (as claimed): whatever the time of day of the cursor and of the clock,
\* goToPreviousDay made with the cursor on the day after the oldest day moves
\* the cursor onto the oldest day and starts its load, a walk whose probe of
\* the day after the oldest day has no data probes the oldest day next
\* (while retries are left), and a load that succeeds on the day after the
\* oldest day starts the preload of the oldest day.
C32_OldestDayReachable ==
    /\ [][goToPreviousDay /\ DayOf(currentDate) = OldestDay + 1 =>
              /\ DayOf(currentDate') = OldestDay
              /\ pf'.pc = "resolve" /\ pf'.date = currentDate']_vars
    /\ [][( /\ pf.pc = "resolve" /\ pf' # pf /\ pf'.nodata = pf.nodata + 1
             /\ pf.retryCount < MAX_RETRY_DAYS
             /\ DayOf(pf.date) = OldestDay + 1 ) =>
              /\ pf'.pc = "resolve" /\ DayOf(pf'.date) = OldestDay
              /\ currentDate' = pf'.date]_vars
    /\ [][LoadSucceeds /\ DayOf(pf.date) = OldestDay + 1 =>
              \E d \in PreloadsInFlight(pre') : DayOf(d) = OldestDay]_vars

-----------------------------------------------------------------------------
(* Claims about the neighbour preloads, under Spec *)

\* a step of the preload in slot i (the primary flow spawns preloads only in
\* a step of its own)
PreloadStep(i) == pre'[i] # pre[i] /\ pf' = pf

\* C23: a neighbour preload makes a single attempt: it is started for a
\* neighbour of the resolved date with its resolve call issued, and each of
\* its steps either ends it or takes it from the reply to the download of
\* that same date; it never issues a second resolve call, whatever the reply,
\* and its steps leave the other preload as it is.
C23_PreloadSingleAttempt ==
    /\ [](\A i \in PreloadIds :
              /\ InFlight(pre[i]) => pre[i].dateStr = formatDate(pre[i].date)
              /\ pre[i].pc = "asset" => pre[i].call.date = pre[i].dateStr)
    /\ [][LoadSucceeds =>
              PreloadsInFlight(pre') \subseteq
                  {addDays(pf'.date, -1), addDays(pf'.date, 1)}]_vars
    /\ [][\A i \in PreloadIds :
              PreloadStep(i) =>
                  /\ InFlight(pre[i])
                  /\ pre'[i].pc \in {"idle", "asset"}
                  /\ pre'[i].pc = "asset" => pre'[i].date = pre[i].date
                  /\ pre[i].pc = "asset" => pre'[i].pc = "idle" \/ pre'[i].call # pre[i].call
                  /\ \A j \in PreloadIds \ {i} : pre'[j] = pre[j]]_vars

\* the first preload has ended and the second one is downloading
C23_Witness ==
    /\ pf.pc = "done"
    /\ pre[1].pc = "idle"
    /\ pre[2].pc = "asset"
    /\ pre[2].call.tried # <<>>

\* C24: a step of a neighbour preload, whether the preload succeeds or fails,
\* leaves the cursor, the displayed record, the displayed asset URI, the
\* loading flag and the error message unchanged; of the cache files it removes
\* none and adds at most the one of its own date.
C24_PreloadFrame ==
    [][\A i \in PreloadIds :
           PreloadStep(i) =>
               /\ UNCHANGED <<currentDate, imageData, localImageUri, loading, error>>
               /\ files \subseteq files'
               /\ files' \ files \subseteq {pre[i].dateStr}]_vars

\* the first load showed a video and made no download: the file in the cache
\* was written by a preload, and the screen still shows the video
C24_Witness ==
    /\ nav = 0
    /\ pf.pc = "done"
    /\ pf.data.media_type = "video"
    /\ files # {}
    /\ pf.dateStr \notin files
    /\ currentDate = pf.date
    /\ imageData = pf.data
    /\ localImageUri = pf.data.url
    /\ ~loading
    /\ error = ""

-----------------------------------------------------------------------------
(* Claims about the edge function, under SpecServe *)

Done(i) == hs[i].pc = "done"

\* C4 (as claimed): whenever the provider answers the fetch for date D with its
\* "no data for this date" response, the endpoint's reply carries the error code
\* NASA_NO_DATA and D, and getNasaImageOfDay raises NasaNoDataError carrying D;
\* after any other failure it raises no NasaNoDataError.
C4_NoDataClassified ==
    \A i \in HandlerIds :
        Done(i) /\ hs[i].req.method # "OPTIONS" =>
            LET out == getNasaImageOfDay(FunctionsInvoke(hs[i].resp))
            IN  IF hs[i].answer = "nodata"
                THEN /\ hs[i].resp.body.errorCode = "NASA_NO_DATA"
                     /\ hs[i].resp.body.date = hs[i].date
                     /\ out.kind = "throw"
                     /\ out.name = "NasaNoDataError"
                     /\ out.date = hs[i].date
                ELSE out.kind = "return"

\* C5: an invocation for a date whose row was in the record store when the
\* lookup ran makes no call to the provider, no upload and no insert, and,
\* unless the lookup itself failed, answers 200 with exactly the stored row and
\* cached = true.
C5_RecordCacheHit ==
    \A i \in HandlerIds :
        Done(i) /\ hs[i].stored =>
            /\ hs[i].calls.nasa = 0
            /\ hs[i].calls.uploads = 0
            /\ hs[i].calls.dbWrites = 0
            /\ \/ hs[i].resp = OkResponse(RowOf(db, hs[i].date), TRUE)
               \/ hs[i].resp = ErrorResponse("record store error")

C5_Witness ==
    \E i \in HandlerIds :
        /\ Done(i)
        /\ hs[i].stored
        /\ hs[i].resp.status = 200
        /\ hs[i].resp.body.cached
        /\ hs[i].resp.body.data \in db

\* C6 (as claimed): a date string that is no calendar date in YYYY-MM-DD form
\* is answered with the invalid-date error, with no call to the record store
\* and no call to the provider.
C6_MalformedRejectedBeforeAnyCall ==
    \A i \in HandlerIds :
        Done(i) /\ hs[i].req.method # "OPTIONS" /\ ~IsCalendarDate(hs[i].date) =>
            /\ hs[i].resp = InvalidDateResponse
            /\ hs[i].calls.dbReads = 0
            /\ hs[i].calls.nasa = 0

\* C6 (amended): a date string that does not have the layout dddd-dd-dd (or is
\* missing) is answered with the invalid-date error with no call at all; a
\* string of that layout with an impossible month or day passes the validation,
\* is looked up in the record store, and still fails without any call to the
\* provider and without any write.
C6_LayoutRejectedBeforeAnyCall ==
    \A i \in HandlerIds :
        Done(i) /\ hs[i].req.method # "OPTIONS" /\ ~IsCalendarDate(hs[i].date) =>
            /\ hs[i].resp.status = 400
            /\ hs[i].calls.nasa = 0
            /\ hs[i].calls.uploads = 0
            /\ hs[i].calls.dbWrites = 0
            /\ IF dateRegexTest(hs[i].date)
               THEN hs[i].calls.dbReads = 1
               ELSE hs[i].resp = InvalidDateResponse /\ hs[i].calls = NoCalls

C6_Witness ==
    \E i, j \in HandlerIds :
        /\ Done(i) /\ hs[i].date = BadLayout /\ hs[i].resp = InvalidDateResponse
        /\ Done(j) /\ hs[j].date = BadMonthDay /\ hs[j].calls.dbReads = 1

\* C10 (as claimed): an invocation whose insert hits the unique-key conflict
\* answers 200 with the row that is in the store for its date.
C10_InsertConflictTolerated ==
    \A i \in HandlerIds :
        Done(i) /\ hs[i].conflict =>
            /\ hs[i].resp.status = 200
            /\ hs[i].resp.body.data = RowOf(db, hs[i].date)

\* C18: the record store holds at most one row per date, and no step of any
\* invocation, in any interleaving, changes or deletes a row that exists.
C18_WriteOnceUniquePerDate ==
    /\ [](\A r1, r2 \in db : r1.date = r2.date => r1 = r2)
    /\ [][\A r \in db : r \in db']_vars

\* an invocation tried to insert a second row for a date and the stored row
\* is still the only one
C18_Witness ==
    \E i \in HandlerIds :
        /\ Done(i)
        /\ hs[i].conflict
        /\ RowOf(db, hs[i].date) # NullRow
        /\ Cardinality({ r \in db : r.date = hs[i].date }) = 1

\* C19 (as claimed): whenever the invocation behind getNasaImageOfDay reports
\* an error, here the endpoint's reply with an error status, getNasaImageOfDay
\* raises an error to its caller and does not return normally.
C19_ErrorsPropagate ==
    \A i \in HandlerIds :
        Done(i) /\ hs[i].resp.status # 200 =>
            /\ FunctionsInvoke(hs[i].resp).error # NoError
            /\ getNasaImageOfDay(FunctionsInvoke(hs[i].resp)).kind = "throw"

\* a request as getNasaImageOfDay sends it: functions.invoke posts { date }
\* as JSON body
ClientRequest(req) == req.method = "POST" /\ IsCalendarDate(req.body)

\* C30 (as claimed): the date the endpoint validates and resolves is the date
\* in the body of the client's request: a well-formed date sent by
\* getNasaImageOfDay passes the validation and is the date resolved.
C30_RequestDatePlumbing ==
    \A i \in HandlerIds :
        Done(i) /\ ClientRequest(hs[i].req) =>
            /\ hs[i].date = hs[i].req.body
            /\ hs[i].resp # InvalidDateResponse
            /\ hs[i].calls.dbReads = 1

\* the upload of the standard image was tried and failed
UploadFailed(h) ==
    h.nasaData.media_type = "image" /\ h.calls.uploads >= 1 /\ h.storagePath = <<>>

\* the upload of the HD image was tried and failed
HdUploadFailed(h) ==
    h.nasaData.media_type = "image" /\ h.calls.uploads = 2 /\ h.hdStoragePath = <<>>

\* the error replies of a failed insert
InsertErrors ==
    { ErrorResponse("duplicate key value violates unique constraint"),
      ErrorResponse("record store error") }

\* C17: a failed upload (error or conflict) of the standard or of the HD image
\* does not end the invocation: it goes on to the insert, and unless the
\* insert itself fails the reply is the success reply with the inserted row,
\* which has no blob path for the failed upload.
C17_UploadFailureNonFatal ==
    \A i \in HandlerIds :
        Done(i) /\ (UploadFailed(hs[i]) \/ HdUploadFailed(hs[i])) =>
            /\ hs[i].calls.dbWrites = 1
            /\ \/ hs[i].resp \in InsertErrors
               \/ /\ hs[i].resp = OkResponse(NewRow(hs[i]), FALSE)
                  /\ NewRow(hs[i]) \in db
                  /\ UploadFailed(hs[i]) => hs[i].resp.body.data.storage_path = <<>>
                  /\ HdUploadFailed(hs[i]) =>
                         hs[i].resp.body.data.thumbnail_storage_path = <<>>

\* an invocation whose standard upload failed answered with the inserted row
C17_Witness ==
    \E i \in HandlerIds :
        /\ Done(i)
        /\ UploadFailed(hs[i])
        /\ hs[i].resp.status = 200
        /\ hs[i].resp.body.data \in db
        /\ hs[i].resp.body.data.storage_path = <<>>

\* the provider answered with an image and the download of the standard
\* image failed: no upload was tried
StandardDownloadFailed(h) ==
    h.answer = "ok" /\ h.nasaData.media_type = "image" /\ h.calls.uploads = 0

\* C28 (as claimed): when the provider fetch for an image date succeeded and
\* the download of the standard image fails, the invocation still goes on to
\* the insert and, unless the insert itself fails, answers with the inserted
\* row, which has no blob path, as it does when the HD download fails.
C28_StandardDownloadBestEffort ==
    \A i \in HandlerIds :
        Done(i) /\ StandardDownloadFailed(hs[i]) =>
            /\ hs[i].calls.dbWrites = 1
            /\ \/ hs[i].resp \in InsertErrors
               \/ /\ hs[i].resp = OkResponse(NewRow(hs[i]), FALSE)
                  /\ hs[i].resp.body.data.storage_path = <<>>

\* the invocation answered with a record
Answered(i) ==
    Done(i) /\ hs[i].req.method # "OPTIONS" /\ hs[i].resp.status = 200

C9_PreloadNeverFailsPrimary ==
    ( /\ Done(1)
      /\ hs[1].answer = "ok"
      /\ Done(2)
      /\ hs[2].date = hs[1].date
      /\ hs[2].resp = OkResponse(RowOf(db, hs[1].date), FALSE) )
    => hs[1].resp # ErrorResponse("duplicate key value violates unique constraint")

-----------------------------------------------------------------------------
(* Claims about the local image cache, under SpecCache *)

IsPrefix(a, b) == Len(a) <= Len(b) /\ \A k \in 1..Len(a) : a[k] = b[k]

TriedUrls(c) == [k \in 1..Len(c.tried) |-> c.tried[k].url]

GotUri(c) == c.pc = "done" /\ c.result.kind = "return" /\ c.result.uri # <<>>

AllDownloadsFailed(c) ==
    /\ c.pc = "done"
    /\ c.result.kind = "throw"
    /\ c.tried # <<>>
    /\ \A k \in 1..Len(c.tried) : ~DownloadSucceeded(c.tried[k].outcome)

\* C20 (as claimed): when every download attempt of a getImage call for a
\* date failed, a download that completed with a status other than 200
\* included, no cache file exists for the date after the call, so that the
\* next getImage for the date is a cache miss.
C20_FailedDownloadCreatesNoEntry ==
    AllDownloadsFailed(gi) =>
        /\ gi.date \notin files
        /\ ~getImageCheck(StartCall("getImage", gi.nasaUrl, gi.storagePath, gi.date),
                          files).hit

\* a step in which the call's downloadAsync wrote the cache file of its date
WritesFile ==
    /\ Len(gi'.tried) = Len(gi.tried) + 1
    /\ FileWritten(gi'.tried[Len(gi'.tried)].outcome)

\* C26 (as claimed): once the cache file for a date exists no getImage or
\* preloadImage call writes it again, and files leave the cache only when
\* clearCache removes them all.
C26_EntriesNeverRewritten ==
    /\ [][WritesFile => gi.date \notin files]_vars
    /\ [][(\E d \in files : d \notin files') => files' = {} /\ gi' = IdleCall]_vars

SourcesOf(c) ==
    (IF c.nasaUrl # <<>> THEN <<c.nasaUrl>> ELSE <<>>)
    \o (IF c.storagePath # <<>> THEN <<getNasaImagePublicUrl(c.storagePath)>> ELSE <<>>)

-----------------------------------------------------------------------------
(* Claims about a request of the client from the endpoint to the cache file,
   under SpecServe *)

\* the getImage call the screen makes for a record on an empty cache, run to
\* its end with the first download succeeding
FirstDownload(data) ==
    LET c == getImageCheck(StartCall("getImage", NasaUrlOf(data), data.storage_path,
                                     data.date), {})
    IN  IF c.pc = "nasa" THEN getImageNasa(c, "200") ELSE c

\* C25 (as claimed): a request of the client for a well-formed date whose
\* image record is in the record store reaches the lookup with that date and
\* is answered with the stored record and cached = true; getNasaImageOfDay
\* returns it, and on an empty local cache getImage makes exactly one
\* download, from the high-definition URL, into the cache file of the date.
C25_StoreHitAssetMiss ==
    /\ [][\A i \in HandlerIds :
              ( /\ hs[i].pc = "idle"
                /\ hs'[i].pc # "idle"
                /\ ClientRequest(hs'[i].req)
                /\ RowOf(db, hs'[i].req.body).media_type = "image" )
              => hs'[i].pc = "select" /\ hs'[i].date = hs'[i].req.body]_vars
    /\ [](\A i \in HandlerIds :
              Done(i) /\ ClientRequest(hs[i].req) /\ hs[i].stored
              /\ hs[i].resp # ErrorResponse("record store error") =>
                  LET out == getNasaImageOfDay(FunctionsInvoke(hs[i].resp))
                      row == RowOf(db, hs[i].req.body)
                  IN  /\ out.kind = "return"
                      /\ out.value.present
                      /\ out.value.cached
                      /\ out.value.data = row
                      /\ row.hdurl # <<>> =>
                             /\ GotUri(FirstDownload(row))
                             /\ FirstDownload(row).result.uri = getCacheFilePath(row.date)
                             /\ TriedUrls(FirstDownload(row)) = <<row.hdurl>>)

-----------------------------------------------------------------------------
(* Claims about the paths of the blob store, under SpecServe *)

\* the public URL under which the blob store serves the object name of the
\* bucket nasa-images
ObjectUrl(name) ==
    <<"https://project.supabase.co", "/storage/v1/object/public/", storageBucket, "/">>
    \o name

\* C31 (as claimed): for every stored record with a blob path, the public URL
\* the local cache derives from storage_path is the URL of the object the
\* resolver uploaded for that record, and that object is in the bucket.
C31_BlobPathRoundTrip ==
    \A r \in db :
        r.storage_path # <<>> =>
            /\ FileName(r.date, r.title) \in bucket
            /\ getNasaImagePublicUrl(r.storage_path) = ObjectUrl(FileName(r.date, r.title))

\* the bucket and the object name a stored path `${bucket}/${name}` refers to
BucketOf(path) == path[1]
ObjectOf(path) == SubSeq(path, 3, Len(path))

\* the stored path refers to an object of the bucket nasa-images
RefersToObject(path, objects) ==
    /\ Len(path) > 2
    /\ BucketOf(path) = storageBucket
    /\ path[2] = "/"
    /\ ObjectOf(path) \in objects

\* C36: in every state, each blob path of each stored record (storage_path,
\* thumbnail_storage_path) refers to an object that is in the bucket, and to
\* the object uploaded for the record's date.
C36_BlobPathImpliesBlob ==
    \A r \in db :
        /\ r.storage_path # <<>> =>
               /\ RefersToObject(r.storage_path, bucket)
               /\ ObjectOf(r.storage_path) = FileName(r.date, r.title)
        /\ r.thumbnail_storage_path # <<>> =>
               /\ RefersToObject(r.thumbnail_storage_path, bucket)
               /\ ObjectOf(r.thumbnail_storage_path) = HdFileName(r.date, r.title)

\* a record with one blob path only, stored while a concurrent invocation for
\* the same date lost both the upload and the insert
C36_Witness ==
    \E r \in db :
        /\ r.storage_path # <<>>
        /\ r.thumbnail_storage_path = <<>>
        /\ r.hdurl # <<>>
        /\ \E i \in HandlerIds :
               /\ Done(i)
               /\ hs[i].date = r.date
               /\ hs[i].calls.uploads > 0
               /\ hs[i].storagePath = <<>>
               /\ hs[i].conflict

\* a step of the invocation in slot i
HandlerStep(i) == hs'[i] # hs[i]

\* C37: a step of an invocation changes the stored records only when it ends
\* the invocation with the success reply of a fresh resolution, and then adds
\* exactly the row of that reply; so every step of an invocation that ends in
\* an error reply leaves the stored records as they are, and no step ever
\* removes or changes a row.
C37_FailureLeavesStore ==
    /\ [][\A i \in HandlerIds :
              HandlerStep(i) /\ hs'[i].resp.status # 200 => db' = db]_vars
    /\ [][\A i \in HandlerIds :
              HandlerStep(i) /\ db' # db =>
                  /\ hs'[i].resp = OkResponse(NewRow(hs[i]), FALSE)
                  /\ db' = db \cup {NewRow(hs[i])}]_vars
    /\ [][db \subseteq db']_vars

\* an invocation whose insert failed, and a later one that stored the row of
\* the same date
C37_Witness ==
    \E i, j \in HandlerIds :
        /\ Done(i)
        /\ hs[i].resp = ErrorResponse("record store error")
        /\ hs[i].calls.dbWrites = 1
        /\ Done(j)
        /\ hs[j].date = hs[i].date
        /\ hs[j].resp.status = 200
        /\ ~hs[j].resp.body.cached
        /\ db = {hs[j].resp.body.data}

-----------------------------------------------------------------------------
(* Claims about the gestures, under Spec *)

\* C34: a gesture fires only while the screen is not loading, shows no error
\* and displays a record with an asset URI, and then no primary flow is in
\* flight; a flow in flight keeps the screen loading; a resolve call is
\* issued either by a gesture, with no flow in flight, or as the retry of the
\* one walk in flight.
C34_SinglePrimaryFlow ==
    /\ [][nav' # nav =>
              /\ ~loading
              /\ error = ""
              /\ imageData # NullRow
              /\ localImageUri # <<>>
              /\ ~InFlight(pf)]_vars
    /\ [](InFlight(pf) => loading)
    /\ [][IssuesResolve /\ pf'.retryCount = 0 => nav' = nav + 1 /\ ~InFlight(pf)]_vars
    /\ [][IssuesResolve /\ pf'.retryCount > 0 =>
              /\ nav' = nav
              /\ pf.pc = "resolve"
              /\ pf'.requested = pf.requested
              /\ pf'.retryCount = pf.retryCount + 1]_vars

\* a walk started by a gesture, in flight after its first retry
C34_Witness ==
    /\ nav = 1
    /\ InFlight(pf)
    /\ loading
    /\ pf.requested # StartInstant
    /\ pf.retryCount = 1

\* C35: once the primary flow has ended with an error message set, the screen
\* renders no gesture and is not loading, and no later step changes the
\* cursor, the message, the record and URI displayed, the loading flag or the
\* primary flow, or counts as a gesture.
C35_ErrorAbsorbing ==
    /\ [](EndedInError => ~gesturesRendered /\ ~loading)
    /\ [][EndedInError =>
              /\ EndedInError'
              /\ UNCHANGED <<currentDate, error, imageData, localImageUri, loading>>
              /\ UNCHANGED <<pf, nav>>]_vars

\* an error after a gesture, with a record still held and a neighbour preload
\* of the last successful load not yet ended
C35_Witness ==
    /\ EndedInError
    /\ nav = 1
    /\ imageData # NullRow
    /\ \E i \in PreloadIds : InFlight(pre[i])

=============================================================================
